---- MODULE Spec2Model ----
(***************************************************************************)
(* Model of prices.py: the symbol normalizer, the quote fetcher, the CSV   *)
(* ledger reconciler (ensure_header_and_append_row) and main.              *)
(*                                                                         *)
(* Text is a sequence of one-character strings, so that strip() and        *)
(* upper() are computed and not assumed.  The ledger file is the sequence  *)
(* of its CSV records, each record the sequence of its fields (text).      *)
(* What csv.writer does to a value (a float is written as its repr, None   *)
(* as the empty field) is CsvField; what csv.reader / csv.DictReader give  *)
(* back (text only, blank records skipped, short records padded with None) *)
(* is DictReaderRows.                                                      *)
(***************************************************************************)
EXTENDS Naturals, Sequences, FiniteSets, TLC

\* ----------------------------------------------------------------- bounds

\* Longest raw symbol list handed to normalize_symbols on its own.
MaxNormLen == 3
\* Longest raw symbol list handed to one reconcile call.
MaxSymbols == 2
\* Calls of the reconciler (or runs of main) in one behaviour.
MaxCalls == 3
\* Invocations begun in one behaviour of the two concurrent processes.
MaxInvocations == 3

\* ------------------------------------------------------------------- text

Whitespace == {" "}

\* str.upper() on one character.
UpperChar(c) ==
  CASE c = "a" -> "A"
    [] c = "b" -> "B"
    [] c = "c" -> "C"
    [] OTHER -> c

\* str.upper()
Upper(s) == [i \in 1..Len(s) |-> UpperChar(s[i])]

RECURSIVE LStrip(_)
LStrip(s) ==
  IF s # <<>> /\ Head(s) \in Whitespace THEN LStrip(Tail(s)) ELSE s

RECURSIVE RStrip(_)
RStrip(s) ==
  IF s # <<>> /\ s[Len(s)] \in Whitespace
    THEN RStrip(SubSeq(s, 1, Len(s) - 1))
    ELSE s

\* str.strip()
Strip(s) == RStrip(LStrip(s))

\* The set of elements of a sequence.
Range(s) == {s[i] : i \in 1..Len(s)}

\* ------------------------------------------------------ normalize_symbols

\* Mutant of NormalizeLoop: seen holds the raw entries, not the canonical
\* forms.
RECURSIVE NormalizeLoopRawSeen(_, _, _)
NormalizeLoopRawSeen(symbols, cleaned, seen) ==
  IF symbols = <<>> THEN cleaned
  ELSE LET s == Head(symbols)
           sym == Upper(Strip(s))
       IN IF s = <<>> \/ Strip(s) = <<>>
            THEN NormalizeLoopRawSeen(Tail(symbols), cleaned, seen)
          ELSE IF s \notin seen
            THEN NormalizeLoopRawSeen(Tail(symbols), Append(cleaned, sym), seen \cup {s})
          ELSE NormalizeLoopRawSeen(Tail(symbols), cleaned, seen)

\* The for loop of normalize_symbols: the entries still to visit, and the
\* locals cleaned and seen.
RECURSIVE NormalizeLoop(_, _, _)
NormalizeLoop(symbols, cleaned, seen) ==
  IF symbols = <<>> THEN cleaned
  ELSE LET s == Head(symbols)
           sym == Upper(Strip(s))
       IN IF s = <<>> \/ Strip(s) = <<>>
            THEN NormalizeLoop(Tail(symbols), cleaned, seen)
          ELSE IF sym \notin seen
            THEN NormalizeLoop(Tail(symbols), Append(cleaned, sym), seen \cup {sym})
          ELSE NormalizeLoop(Tail(symbols), cleaned, seen)

normalize_symbols(symbols) == NormalizeLoop(symbols, <<>>, {})

\* -------------------------------------------------------------- csv values

\* A Python value held in a row dict: a str, a float (a price; the natural p
\* stands for the float p.0) or None.
StrVal(s) == [t |-> "str", v |-> s]
FloatVal(p) == [t |-> "float", v |-> <<p>>]
NoneVal == [t |-> "none", v |-> <<>>]

DigitChars == <<"0", "1", "2", "3", "4", "5", "6", "7", "8", "9">>

RECURSIVE IntStr(_)
IntStr(n) ==
  IF n < 10 THEN <<DigitChars[n + 1]>>
  ELSE IntStr(n \div 10) \o <<DigitChars[(n % 10) + 1]>>

\* repr() of the float p.0, as csv.writer writes a float.
FloatStr(p) == IntStr(p) \o <<".", "0">>

\* The field csv.writer writes for a value: a str as it is, a float as its
\* repr, None as the empty field.
CsvField(val) ==
  CASE val.t = "str" -> val.v
    [] val.t = "float" -> FloatStr(val.v[1])
    [] OTHER -> <<>>

\* dict.get(k, default)
DictGet(d, k, default) == IF k \in DOMAIN d THEN d[k] ELSE default

\* Mutant of PriceGet: a missing price reads as 0.0.
PriceGetZero(price_map, col) ==
  IF col \in DOMAIN price_map THEN FloatVal(price_map[col]) ELSE FloatVal(0)

\* price_map.get(col, ""): the price map holds floats.
PriceGet(price_map, col) ==
  IF col \in DOMAIN price_map THEN FloatVal(price_map[col]) ELSE StrVal(<<>>)

\* The literal "timestamp".
TimestampCol == <<"t", "i", "m", "e", "s", "t", "a", "m", "p">>

\* {"timestamp": timestamp, **{s: price_map.get(s, "") for s in cols}}, and
\* the row_to_write the append builds key by key: a later key overrides.
RowDict(timestamp, cols, price_map) ==
  [k \in {TimestampCol} \cup Range(cols) |->
     IF k \in Range(cols) THEN PriceGet(price_map, k) ELSE StrVal(timestamp)]

\* Mutant of WriteRow: a key the dict lacks or holds empty is left out of the
\* record instead of written as an empty field.
WriteRowOmitEmpty(fieldnames, d) ==
  LET fields == [i \in 1..Len(fieldnames) |->
                   CsvField(DictGet(d, fieldnames[i], StrVal(<<>>)))]
      NotEmpty(x) == x # <<>>
  IN SelectSeq(fields, NotEmpty)

\* csv.DictWriter(f, fieldnames).writerow(d): one field per fieldname, the
\* empty field (restval) for a key d lacks.  Every dict this program writes
\* has its keys among fieldnames, so extrasaction never raises.
WriteRow(fieldnames, d) ==
  [i \in 1..Len(fieldnames) |-> CsvField(DictGet(d, fieldnames[i], StrVal(<<>>)))]

\* The index of the last occurrence of h in fieldnames (0: none):
\* dict(zip(fieldnames, row)) keeps the last value of a repeated key.
LastIndex(fieldnames, h) ==
  LET At == {i \in 1..Len(fieldnames) : fieldnames[i] = h}
  IN IF At = {} THEN 0 ELSE CHOOSE i \in At : \A j \in At : j <= i

\* One row of csv.DictReader: text for the fields the record has, None
\* (restval) for the fieldnames it is too short for.  Fields beyond the
\* fieldnames go under the key None, which no header column ever reads.
ReadDict(fieldnames, record) ==
  [h \in Range(fieldnames) |->
     IF LastIndex(fieldnames, h) <= Len(record)
       THEN StrVal(record[LastIndex(fieldnames, h)])
       ELSE NoneVal]

\* The records csv.DictReader yields: the first record is the fieldnames,
\* blank records are skipped.
DictReaderRows(file) ==
  IF file = <<>> THEN <<>>
  ELSE LET NotBlank(r) == r # <<>>
           body == SelectSeq(Tail(file), NotBlank)
       IN [i \in 1..Len(body) |-> ReadDict(file[1], body[i])]

\* --------------------------------------------- ensure_header_and_append_row

\* Mutant of FirstWrite: only the symbols the price map covers get a column.
FirstWritePricedOnly(timestamp, symbols, price_map) ==
  LET Priced(c) == c \in DOMAIN price_map
      desired_header == <<TimestampCol>> \o SelectSeq(symbols, Priced)
  IN << desired_header,
        WriteRow(desired_header, RowDict(timestamp, symbols, price_map)) >>

\* Cases 1 and 2: the file opened with "w", header and one row written.
FirstWrite(timestamp, symbols, price_map) ==
  LET desired_header == <<TimestampCol>> \o symbols
  IN << desired_header,
        WriteRow(desired_header, RowDict(timestamp, symbols, price_map)) >>

\* `not old_header` after next(reader, None): no record, or a blank one.
HeaderMissing(file) == file = <<>> \/ file[1] = <<>>

old_cols_of(old_header) ==
  LET IsCol(c) == c # <<>> /\ c # TimestampCol
  IN SelectSeq(old_header, IsCol)

\* Mutant of new_cols_of: every requested symbol counts as new.
new_cols_all(symbols, old_cols) == symbols

new_cols_of(symbols, old_cols) ==
  LET IsNew(c) == c \notin Range(old_cols)
  IN SelectSeq(symbols, IsNew)

\* Mutant of union_header_of: today's symbols first, then the old columns
\* the request omits.
union_header_request_first(old_header, symbols) ==
  LET Omitted(c) == c \notin Range(symbols)
  IN <<TimestampCol>> \o symbols \o SelectSeq(old_cols_of(old_header), Omitted)

\* Merge headers.
union_header_of(old_header, symbols) ==
  <<TimestampCol>> \o old_cols_of(old_header)
                   \o new_cols_of(symbols, old_cols_of(old_header))

\* Mutant of FixedRows: the last row read is not kept.
FixedRowsDropLast(file, union_header) ==
  LET read == DictReaderRows(file)
  IN [i \in 1..(Len(read) - 1) |->
        [h \in Range(union_header) |-> DictGet(read[i], h, StrVal(<<>>))]]

\* fixed = {h: row.get(h, "") for h in union_header}, for every row read.
FixedRows(file, union_header) ==
  LET read == DictReaderRows(file)
  IN [i \in 1..Len(read) |->
        [h \in Range(union_header) |-> DictGet(read[i], h, StrVal(<<>>))]]

\* Mutant of Rewrite: the rows are written back last first.
RewriteReversed(union_header, rows) ==
  <<union_header>> \o
    [i \in 1..Len(rows) |-> WriteRow(union_header, rows[Len(rows) + 1 - i])]

\* The file opened with "w": writeheader(), writerows(rows).
Rewrite(union_header, rows) ==
  <<union_header>> \o [i \in 1..Len(rows) |-> WriteRow(union_header, rows[i])]

\* The row appended with the file opened with "a".
AppendedRow(timestamp, union_header, price_map) ==
  WriteRow(union_header, RowDict(timestamp, Tail(union_header), price_map))

\* Mutant of ensure_header_and_append_row: the last open is "w", not "a".
ensure_header_and_truncate(exists, file, timestamp, raw_symbols, price_map) ==
  LET symbols == normalize_symbols(raw_symbols)
  IN IF ~exists \/ HeaderMissing(file)
       THEN FirstWrite(timestamp, symbols, price_map)
     ELSE << AppendedRow(timestamp, union_header_of(file[1], symbols), price_map) >>

\* The file after one whole call; exists and file are the file before it.
ensure_header_and_append_row(exists, file, timestamp, raw_symbols, price_map) ==
  LET symbols == normalize_symbols(raw_symbols)
  IN IF ~exists \/ HeaderMissing(file)
       THEN FirstWrite(timestamp, symbols, price_map)
     ELSE LET old_header == file[1]
              union_header == union_header_of(old_header, symbols)
              expanded == IF union_header # old_header
                            THEN Rewrite(union_header, FixedRows(file, union_header))
                            ELSE file
          IN Append(expanded, AppendedRow(timestamp, union_header, price_map))

\* ------------------------------------------------------------------ inputs

RawSymbols == { <<" ">>, <<" ", "a">>, <<"A">>, <<"b", " ">> }
Symbols == { <<"A">>, <<"B">> }
Prices == {1}

\* The timestamp of the n-th call: callers read a clock (utc_iso_z), so every
\* call brings a timestamp of its own.
TimestampOf(n) == <<"T">> \o IntStr(n)

SeqsUpTo(S, n) == UNION {[1..k -> S] : k \in 0..n}
PriceMaps == UNION {[K -> Prices] : K \in SUBSET Symbols}

\* ------------------------------------------------------------------- state

VARIABLES
  csv_exists,   \* os.path.exists(csv_path)
  csv_file,     \* the records of the file at csv_path
  clock,        \* calls started so far
  call,         \* the last completed call: its arguments (symbols normalized)
                \* and the header it found (<<>>: none)
  seen,         \* every normalized symbol ever passed, in order of first appearance
  norm_in,      \* normalize_symbols on its own: the argument
  norm_out,     \* ... and what it returned
  norm_done,    \* ... once it has returned
  run,          \* the last run of main: what get_prices raised ("none": it
                \* returned), the fatal condition its inputs met, the symbols
                \* it skipped
  loc,          \* concurrent invocations: each one's position (pc) and locals
  overlap,      \* an invocation began while the other was under way
  raced,        \* a rewrite was done while the other invocation was between
                \* its read of the header and its append
  done_calls    \* the timestamps of the invocations that completed

ledgerVars == <<csv_exists, csv_file, clock, call, seen>>
normVars == <<norm_in, norm_out, norm_done>>
concVars == <<loc, overlap, raced, done_calls>>
vars == <<csv_exists, csv_file, clock, call, seen, norm_in, norm_out, norm_done, run,
          loc, overlap, raced, done_calls>>

NoCall == [timestamp |-> <<>>, symbols |-> <<>>, price_map |-> <<>>, old_header |-> <<>>]

\* No call yet; the file is absent, or exists and is empty.
InitLedger ==
  /\ csv_exists \in BOOLEAN
  /\ csv_file = <<>>
  /\ clock = 0
  /\ call = NoCall
  /\ seen = <<>>

InitNormIdle ==
  /\ norm_in = <<>>
  /\ norm_out = <<>>
  /\ norm_done = FALSE

NoRun == [raised |-> "none", cause |-> "none", skipped |-> {}, ran |-> FALSE]

Procs == {1, 2}

Idle == [pc |-> "idle", timestamp |-> <<>>, symbols |-> <<>>, price_map |-> <<>>,
         union_header |-> <<>>, rows |-> <<>>]

InitConcIdle ==
  /\ loc = [p \in Procs |-> Idle]
  /\ overlap = FALSE
  /\ raced = FALSE
  /\ done_calls = {}

Init == InitLedger /\ InitNormIdle /\ run = NoRun /\ InitConcIdle

\* seen, with the symbols of one more call.
RECURSIVE Remember(_, _)
Remember(history, symbols) ==
  IF symbols = <<>> THEN history
  ELSE IF \E i \in 1..Len(history) : history[i] = Head(symbols)
    THEN Remember(history, Tail(symbols))
  ELSE Remember(Append(history, Head(symbols)), Tail(symbols))

\* One whole call of ensure_header_and_append_row.
Reconcile(raw_symbols, price_map) ==
  /\ clock < MaxCalls
  /\ clock' = clock + 1
  /\ csv_exists' = TRUE
  /\ csv_file' = ensure_header_and_append_row(csv_exists, csv_file, TimestampOf(clock'),
                                              raw_symbols, price_map)
  /\ call' = [timestamp |-> TimestampOf(clock'),
              symbols |-> normalize_symbols(raw_symbols),
              price_map |-> price_map,
              old_header |-> IF csv_exists /\ ~HeaderMissing(csv_file)
                               THEN csv_file[1] ELSE <<>>]
  /\ seen' = Remember(seen, normalize_symbols(raw_symbols))
  /\ UNCHANGED <<normVars, run, concVars>>

Next ==
  \E raw_symbols \in SeqsUpTo(RawSymbols, MaxSymbols), price_map \in PriceMaps :
    Reconcile(raw_symbols, price_map)

Spec == Init /\ [][Next]_vars

\* ------------------------------------------- normalize_symbols on its own

\* Raw entries: the empty string, blanks, either case, whitespace around
\* and inside, entries of more than one letter.
NormEntries ==
  { <<>>, <<" ">>, <<"a">>, <<"A">>, <<"b">>, <<"B">>,
    <<" ", "a">>, <<"A", " ">>, <<" ", "b", " ">>,
    <<"a", "b">>, <<"A", "b">>, <<"a", " ", "b">> }

InitNorm ==
  /\ csv_exists = FALSE
  /\ csv_file = <<>>
  /\ clock = 0
  /\ call = NoCall
  /\ seen = <<>>
  /\ norm_in \in SeqsUpTo(NormEntries, MaxNormLen)
  /\ norm_out = <<>>
  /\ norm_done = FALSE
  /\ run = NoRun
  /\ InitConcIdle

Normalize ==
  /\ ~norm_done
  /\ norm_out' = normalize_symbols(norm_in)
  /\ norm_done' = TRUE
  /\ UNCHANGED <<norm_in, csv_exists, csv_file, clock, call, seen, run, concVars>>

NextNorm == Normalize

SpecNorm == InitNorm /\ [][NextNorm]_vars

\* -------------------------------------------------------------- get_prices

\* `not x` for a str or None: None and the empty string are falsy.
Falsy(val) == val.t = "none" \/ (val.t = "str" /\ val.v = <<>>)

IsDigit(c) == \E i \in 1..10 : DigitChars[i] = c

RECURSIVE StrInt(_)
StrInt(text) ==
  IF text = <<>> THEN 0
  ELSE 10 * StrInt(SubSeq(text, 1, Len(text) - 1))
       + ((CHOOSE i \in 1..10 : DigitChars[i] = text[Len(text)]) - 1)

\* float(price): a float as it is, a str of digits parsed, any other str a
\* ValueError.
FloatOk(val) ==
  \/ val.t = "float"
  \/ val.t = "str" /\ Strip(val.v) # <<>>
                   /\ \A i \in 1..Len(Strip(val.v)) : IsDigit(Strip(val.v)[i])
FloatOf(val) == IF val.t = "float" THEN val.v[1] ELSE StrInt(Strip(val.v))

\* (item.get("quote") or {}).get(convert) or {}, then .get("price"): an item
\* is the dict of its quotes, currency to price; None when there is no price.
QuotedPrice(item, convert) == DictGet(item, convert, NoneVal)

\* The loop body's verdict for one symbol: the item is not returned or
\* empty, the price is None, the price does not convert, or it is kept.
Kept(returned, sym, convert) ==
  /\ sym \in DOMAIN returned
  /\ DOMAIN returned[sym] # {}
  /\ QuotedPrice(returned[sym], convert).t # "none"
  /\ FloatOk(QuotedPrice(returned[sym], convert))

\* What get_prices raises ("none": it returns) and the price map it returns.
\* response is what requests.get does: raise, or a status code, the error
\* code of the body's status and the body's data.
get_prices(api_key, raw_symbols, convert, response) ==
  LET symbols == normalize_symbols(raw_symbols)
  IN CASE Falsy(api_key) -> [raised |-> "credential", out |-> <<>>]
       [] symbols = <<>> -> [raised |-> "empty", out |-> <<>>]
       [] response.exception -> [raised |-> "transport", out |-> <<>>]
       [] response.status_code # 200 -> [raised |-> "http", out |-> <<>>]
       [] response.error_code # 0 -> [raised |-> "api", out |-> <<>>]
       [] OTHER ->
            [raised |-> "none",
             out |-> [sym \in {c \in Range(symbols) : Kept(response.data, c, convert)} |->
                        FloatOf(QuotedPrice(response.data[sym], convert))]]

\* -------------------------------------------------------------------- main

\* str.split(",")
RECURSIVE Split(_, _)
Split(text, current) ==
  IF text = <<>> THEN <<current>>
  ELSE IF Head(text) = "," THEN <<current>> \o Split(Tail(text), <<>>)
  ELSE Split(Tail(text), Append(current, Head(text)))

default_symbols ==
  << <<"B", "T", "C">>, <<"E", "T", "H">>, <<"A", "D", "A">>, <<"X", "R", "P">>,
     <<"S", "O", "L">>, <<"S", "U", "I">>, <<"A", "V", "A", "X">>,
     <<"P", "O", "L">>, <<"A", "P", "I", "3">> >>

parse_symbols_from_env(symbols_env, default) ==
  LET parts == [i \in 1..Len(Split(symbols_env, <<>>)) |->
                  Strip(Split(symbols_env, <<>>)[i])]
  IN IF Strip(symbols_env) # <<>> /\ normalize_symbols(parts) # <<>>
       THEN normalize_symbols(parts)
       ELSE default

\* (CONVERT_ENV or "USD").strip().upper(), CONVERT not set.
USD == <<"U", "S", "D">>

\* Mutant of main_file: a failed fetch is caught and the row written with no
\* price.
main_file_despite_failure(exists, file, timestamp, api_key, symbols_env, response) ==
  LET symbols == parse_symbols_from_env(symbols_env, default_symbols)
      prices == get_prices(api_key, symbols, USD, response)
  IN [exists |-> TRUE,
      file |-> ensure_header_and_append_row(exists, file, timestamp, symbols,
                                            prices.out)]

\* The file after one run of main: get_prices raising ends the run before
\* ensure_header_and_append_row is called.
main_file(exists, file, timestamp, api_key, symbols_env, response) ==
  LET symbols == parse_symbols_from_env(symbols_env, default_symbols)
      prices == get_prices(api_key, symbols, USD, response)
  IN IF prices.raised # "none"
       THEN [exists |-> exists, file |-> file]
       ELSE [exists |-> TRUE,
             file |-> ensure_header_and_append_row(exists, file, timestamp, symbols,
                                                   prices.out)]

\* Inputs of a run: the credential, SYMBOLS, and what the API does.
ApiKeys == {NoneVal, StrVal(<<>>), StrVal(<<"k">>)}
SymbolsEnvs == { <<>>, <<",">>, <<"a", ",", " ", "B">>, <<" ", "b">> }

Symbol_BTC == <<"B", "T", "C">>
EUR == <<"E", "U", "R">>
\* An item: absent from the data (no key), empty, without a quote in the
\* currency, with price None, with a price that is no number, with a number
\* as a str, with a number.
Items == { <<>>, (EUR :> FloatVal(1)), (USD :> NoneVal), (USD :> StrVal(<<"x">>)),
           (USD :> StrVal(<<"1">>)), (USD :> FloatVal(1)) }
QuotedSymbols == { <<"A">>, Symbol_BTC }
DataMaps == UNION {[K -> Items] : K \in SUBSET QuotedSymbols}
GoodData == [c \in QuotedSymbols |-> (USD :> FloatVal(1))]
Responses ==
  { [exception |-> TRUE, status_code |-> 0, error_code |-> 0, data |-> <<>>],
    [exception |-> FALSE, status_code |-> 500, error_code |-> 0, data |-> GoodData],
    [exception |-> FALSE, status_code |-> 200, error_code |-> 1001, data |-> GoodData] }
  \cup { [exception |-> FALSE, status_code |-> 200, error_code |-> 0, data |-> d] :
         d \in DataMaps }

\* The fatal condition the inputs of a run meet, read off the inputs alone.
FatalCause(api_key, symbols, response) ==
  CASE api_key \notin {StrVal(<<"k">>)} -> "credential"
    [] symbols = <<>> -> "empty"
    [] response.exception -> "transport"
    [] response.status_code # 200 -> "http"
    [] response.error_code # 0 -> "api"
    [] OTHER -> "none"

\* One whole run of main.
Main(api_key, symbols_env, response) ==
  LET symbols == parse_symbols_from_env(symbols_env, default_symbols)
      prices == get_prices(api_key, symbols, USD, response)
      after == main_file(csv_exists, csv_file, TimestampOf(clock'), api_key,
                         symbols_env, response)
  IN /\ clock < MaxCalls
     /\ clock' = clock + 1
     /\ csv_exists' = after.exists
     /\ csv_file' = after.file
     /\ run' = [raised |-> prices.raised,
                cause |-> FatalCause(api_key, symbols, response),
                skipped |-> IF prices.raised = "none"
                              THEN Range(symbols) \ DOMAIN prices.out ELSE {},
                ran |-> TRUE]
     /\ IF prices.raised = "none"
          THEN /\ call' = [timestamp |-> TimestampOf(clock'),
                           symbols |-> normalize_symbols(symbols),
                           price_map |-> prices.out,
                           old_header |-> IF csv_exists /\ ~HeaderMissing(csv_file)
                                            THEN csv_file[1] ELSE <<>>]
               /\ seen' = Remember(seen, normalize_symbols(symbols))
          ELSE UNCHANGED <<call, seen>>
     /\ UNCHANGED <<normVars, concVars>>

NextMain ==
  \E api_key \in ApiKeys, symbols_env \in SymbolsEnvs, response \in Responses :
    Main(api_key, symbols_env, response)

SpecMain == Init /\ [][NextMain]_vars

\* ------------------------------------- two invocations on the same path

\* The file steps of ensure_header_and_append_row, one action each: the
\* existence test, the read of the header, the read of the rows, the
\* truncating rewrite, the append.  Nothing locks the file between them.

Other(p) == CHOOSE q \in Procs : q # p

\* What the concurrent invocations are called with.
ConcSymbolLists ==
  { << <<"A">> >>, << <<"b", " ">> >>, << <<" ", "a">>, <<"b", " ">> >> }

\* Lines 137-141: normalize, then os.path.exists.
Begin(p, raw_symbols, price_map) ==
  /\ loc[p].pc = "idle"
  /\ clock < MaxInvocations
  /\ clock' = clock + 1
  /\ loc' = [loc EXCEPT ![p] =
               [pc |-> IF csv_exists THEN "read_header" ELSE "create",
                timestamp |-> TimestampOf(clock'),
                symbols |-> normalize_symbols(raw_symbols),
                price_map |-> price_map,
                union_header |-> <<>>,
                rows |-> <<>>]]
  /\ overlap' = (overlap \/ loc[Other(p)].pc # "idle")
  /\ UNCHANGED <<csv_exists, csv_file, call, seen, normVars, run, raced, done_calls>>

\* Lines 142-147 and 156-161: open with "w", write header and row, return.
Create(p) ==
  /\ loc[p].pc = "create"
  /\ csv_exists' = TRUE
  /\ csv_file' = FirstWrite(loc[p].timestamp, loc[p].symbols, loc[p].price_map)
  /\ done_calls' = done_calls \cup {loc[p].timestamp}
  /\ loc' = [loc EXCEPT ![p] = Idle]
  /\ UNCHANGED <<clock, call, seen, normVars, run, overlap, raced>>

\* Lines 150-169: read the header, merge, and choose the path.
ReadHeader(p) ==
  /\ loc[p].pc = "read_header"
  /\ loc' = [loc EXCEPT ![p] =
               IF HeaderMissing(csv_file)
                 THEN [@ EXCEPT !.pc = "create"]
                 ELSE [@ EXCEPT
                         !.union_header = union_header_of(csv_file[1], loc[p].symbols),
                         !.pc = IF union_header_of(csv_file[1], loc[p].symbols) # csv_file[1]
                                  THEN "read_rows" ELSE "append"]]
  /\ UNCHANGED <<csv_exists, csv_file, clock, call, seen, normVars, run,
                 overlap, raced, done_calls>>

\* Lines 171-175: read every row and re-project it.
ReadRows(p) ==
  /\ loc[p].pc = "read_rows"
  /\ loc' = [loc EXCEPT ![p] =
               [@ EXCEPT !.rows = FixedRows(csv_file, loc[p].union_header),
                         !.pc = "rewrite"]]
  /\ UNCHANGED <<csv_exists, csv_file, clock, call, seen, normVars, run,
                 overlap, raced, done_calls>>

\* Lines 177-180: open with "w", write the header and the rows read.
RewriteFile(p) ==
  /\ loc[p].pc = "rewrite"
  /\ csv_file' = Rewrite(loc[p].union_header, loc[p].rows)
  /\ raced' = (raced \/ loc[Other(p)].pc \in {"read_rows", "rewrite", "append"})
  /\ loc' = [loc EXCEPT ![p] = [@ EXCEPT !.pc = "append"]]
  /\ UNCHANGED <<csv_exists, clock, call, seen, normVars, run, overlap, done_calls>>

\* Lines 183-189: open with "a", write the new row.
AppendRow(p) ==
  /\ loc[p].pc = "append"
  /\ csv_file' = Append(csv_file, AppendedRow(loc[p].timestamp, loc[p].union_header,
                                              loc[p].price_map))
  /\ done_calls' = done_calls \cup {loc[p].timestamp}
  /\ loc' = [loc EXCEPT ![p] = Idle]
  /\ UNCHANGED <<csv_exists, clock, call, seen, normVars, run, overlap, raced>>

NextConc ==
  \E p \in Procs :
    \/ \E raw_symbols \in ConcSymbolLists, price_map \in PriceMaps :
         Begin(p, raw_symbols, price_map)
    \/ Create(p)
    \/ ReadHeader(p)
    \/ ReadRows(p)
    \/ RewriteFile(p)
    \/ AppendRow(p)

SpecConc == Init /\ [][NextConc]_vars

\* ---------------------------------------------------- vocabulary of claims

Symbol_A == <<"A">>
Symbol_B == <<"B">>

IsPrefix(s, t) == Len(s) <= Len(t) /\ \A i \in 1..Len(s) : s[i] = t[i]

NoDuplicates(s) == \A i, j \in 1..Len(s) : s[i] = s[j] => i = j

\* A position of column col in header (the headers met here repeat no column).
ColumnAt(header, col) == CHOOSE j \in 1..Len(header) : header[j] = col

\* How a price reads in a cell: 1.0 for the price 1, and so on.
PriceText(p) ==
  CASE p = 1 -> <<"1", ".", "0">>
    [] p = 2 -> <<"2", ".", "0">>

\* The row a call is to write under header: its timestamp, then for each
\* column the price the map holds for it or the empty string.
ExpectedRow(header, timestamp, price_map) ==
  [j \in 1..Len(header) |->
     IF j = 1 THEN timestamp
     ELSE IF header[j] \in DOMAIN price_map THEN PriceText(price_map[header[j]])
     ELSE <<>>]

\* The ledger before a step exists with a non-empty header.
LedgerExists == csv_exists /\ ~HeaderMissing(csv_file)

\* A step that is a completed reconcile call.
Called == clock' = clock + 1

\* C1: after any sequence of completed calls from an absent file, the header
\* is "timestamp" followed by every normalized symbol ever passed, each once,
\* in order of first appearance over the whole history.
C1_HeaderIsHistory ==
  clock > 0 => /\ csv_file # <<>>
               /\ csv_file[1] = <<TimestampCol>> \o seen
               /\ NoDuplicates(csv_file[1])

\* Three calls, the later ones naming the symbols in another order than they
\* first appeared in.
C1_Witness ==
  /\ clock = 3
  /\ seen = <<Symbol_B, Symbol_A>>
  /\ call.symbols = <<Symbol_A, Symbol_B>>
  /\ csv_file[1] = <<TimestampCol, Symbol_B, Symbol_A>>

\* C2: for a call on an existing ledger, the header before is a prefix of the
\* header after, whatever symbols the call passes.
C2_HeaderPrefix ==
  [][(Called /\ LedgerExists) => IsPrefix(csv_file[1], csv_file'[1])]_vars

\* A call with an empty symbol list on a ledger of two symbol columns.
C2_Witness ==
  /\ clock >= 2
  /\ call.symbols = <<>>
  /\ Len(call.old_header) = 3
  /\ csv_file[1] = call.old_header

\* C3: after a completed call every data row has as many cells as the header
\* has columns, a missing price being an empty cell and never an omitted one.
C3_RowsMatchHeader ==
  clock > 0 =>
    \A i \in 2..Len(csv_file) :
      /\ Len(csv_file[i]) = Len(csv_file[1])
      /\ \A j \in 2..Len(csv_file[i]) :
           csv_file[i][j] \in {<<>>} \cup {PriceText(p) : p \in Prices}

\* A row written before the header grew, beside the row of the growing call.
C3_Witness ==
  /\ Len(csv_file) = 3
  /\ Len(call.old_header) = 2
  /\ Len(csv_file[1]) = 3
  /\ csv_file[2][3] = <<>>
  /\ csv_file[3][3] = PriceText(1)
  /\ csv_file[3][2] = <<>>

\* The call of this step finds an existing ledger and adds a column to it.
Grows == Called /\ LedgerExists /\ Len(csv_file'[1]) > Len(csv_file[1])

\* C4: when a call introduces a new column, every old row is still there, in
\* the same order, with its value in every old column and the empty string in
\* every new one; the one added row is the new row, last.
C4_GrowthKeepsRows ==
  [][Grows =>
       /\ Len(csv_file') = Len(csv_file) + 1
       /\ \A i \in 2..Len(csv_file) :
            /\ Len(csv_file'[i]) = Len(csv_file'[1])
            /\ \A j \in 1..Len(csv_file'[1]) :
                 csv_file'[i][j] =
                   IF csv_file'[1][j] \in Range(csv_file[1])
                     THEN csv_file[i][ColumnAt(csv_file[1], csv_file'[1][j])]
                     ELSE <<>>
       /\ csv_file'[Len(csv_file')][1] = call'.timestamp]_vars

\* The third call adds a column to a ledger of two different rows.
C4_Witness ==
  /\ clock = 3
  /\ Len(csv_file) = 4
  /\ Len(call.old_header) = 2
  /\ Len(csv_file[1]) = 3
  /\ csv_file[2] = <<TimestampOf(1), PriceText(1), <<>>>>
  /\ csv_file[3] = <<TimestampOf(2), <<>>, <<>>>>

\* C5: a call on an absent or empty file leaves exactly the header
\* "timestamp" + normalized symbols and one row: the timestamp, then for each
\* symbol its price if the map has one and the empty string otherwise.
C5_FirstWrite ==
  [][(Called /\ ~LedgerExists) =>
       csv_file' = << <<TimestampCol>> \o call'.symbols,
                      ExpectedRow(<<TimestampCol>> \o call'.symbols,
                                  call'.timestamp, call'.price_map) >>]_vars

\* Symbols A, B with a price for A only: header timestamp,A,B and row T1,1.0,
C5_Witness ==
  /\ clock = 1
  /\ call.price_map = (Symbol_A :> 1)
  /\ csv_file = << <<TimestampCol, Symbol_A, Symbol_B>>,
                   <<TimestampOf(1), PriceText(1), <<>>>> >>

\* C6 as stated: every column of the old header that the call's symbols omit
\* stays, and the appended row is empty there, whatever the price map.
C6_OmittedColumnEmpty ==
  [][(Called /\ LedgerExists) =>
       \A j \in 2..Len(csv_file[1]) :
         csv_file[1][j] \notin Range(call'.symbols) =>
           /\ csv_file[1][j] \in Range(csv_file'[1])
           /\ csv_file'[Len(csv_file')][ColumnAt(csv_file'[1], csv_file[1][j])] = <<>>]_vars

\* C6 amended: the column stays, and the appended row has there what the
\* price map holds for the column, the empty string if it holds nothing.
C6_OmittedColumnFromMap ==
  [][(Called /\ LedgerExists) =>
       \A j \in 2..Len(csv_file[1]) :
         csv_file[1][j] \notin Range(call'.symbols) =>
           /\ csv_file[1][j] \in Range(csv_file'[1])
           /\ csv_file'[Len(csv_file')][ColumnAt(csv_file'[1], csv_file[1][j])] =
                IF csv_file[1][j] \in DOMAIN call'.price_map
                  THEN PriceText(call'.price_map[csv_file[1][j]])
                  ELSE <<>>]_vars

\* A call for A alone, with a price for A, on a ledger that has column B.
C6_Witness ==
  /\ clock >= 2
  /\ call.old_header = <<TimestampCol, Symbol_B, Symbol_A>>
  /\ call.symbols = <<Symbol_A>>
  /\ call.price_map = (Symbol_A :> 1)
  /\ csv_file[Len(csv_file)] = <<call.timestamp, <<>>, PriceText(1)>>

\* C10: a call that introduces no new column leaves the ledger as it was,
\* followed by one new row: the timestamp, then for each header column its
\* price if the map has one and the empty string otherwise.
C10_AppendOnly ==
  [][(Called /\ LedgerExists /\ Range(call'.symbols) \subseteq Range(csv_file[1])) =>
       csv_file' = Append(csv_file,
                          ExpectedRow(csv_file[1], call'.timestamp, call'.price_map))]_vars

\* A call for A and B, the map lacking B, on a ledger that has both columns.
C10_Witness ==
  /\ clock >= 2
  /\ call.old_header = <<TimestampCol, Symbol_A, Symbol_B>>
  /\ call.symbols = <<Symbol_B, Symbol_A>>
  /\ call.price_map = (Symbol_A :> 1)
  /\ csv_file[1] = call.old_header
  /\ csv_file[Len(csv_file)] = <<call.timestamp, PriceText(1), <<>>>>

\* What the words of the normalizer's contract mean, said without the code:
\* blank, trimmed, uppercased, first occurrence.
IsBlank(x) == \A i \in 1..Len(x) : x[i] \in Whitespace

IsTrimOf(t, x) ==
  \E i \in 1..Len(x) + 1, j \in 0..Len(x) :
    /\ t = SubSeq(x, i, j)
    /\ \A k \in 1..(i - 1) : x[k] \in Whitespace
    /\ \A k \in (j + 1)..Len(x) : x[k] \in Whitespace
    /\ t # <<>> => (t[1] \notin Whitespace /\ t[Len(t)] \notin Whitespace)

Capital == ("a" :> "A") @@ ("b" :> "B") @@ ("c" :> "C")

IsUpperOf(u, t) ==
  /\ Len(u) = Len(t)
  /\ \A i \in 1..Len(t) :
       u[i] = IF t[i] \in DOMAIN Capital THEN Capital[t[i]] ELSE t[i]

\* u is the canonical (trimmed, uppercased) form of the raw entry x.
IsCanonOf(u, x) ==
  \E i \in 1..Len(x) + 1, j \in 0..Len(x) :
    IsTrimOf(SubSeq(x, i, j), x) /\ IsUpperOf(u, SubSeq(x, i, j))

\* The first position of the input whose entry is not blank and has the
\* canonical form u.
FirstOccurrence(input, u) ==
  CHOOSE k \in 1..Len(input) :
    /\ ~IsBlank(input[k]) /\ IsCanonOf(u, input[k])
    /\ \A m \in 1..(k - 1) : ~(~IsBlank(input[m]) /\ IsCanonOf(u, input[m]))

\* C9: the output has no duplicates, each entry is the canonical form of a
\* non-blank input entry, every non-blank input entry's canonical form is in
\* it, the order is that of first occurrence, empty input gives empty
\* output, and normalizing the output again changes nothing.
C9_Normalizer ==
  norm_done =>
    /\ NoDuplicates(norm_out)
    /\ \A i \in 1..Len(norm_out) :
         \E k \in 1..Len(norm_in) :
           ~IsBlank(norm_in[k]) /\ IsCanonOf(norm_out[i], norm_in[k])
    /\ \A k \in 1..Len(norm_in) :
         ~IsBlank(norm_in[k]) =>
           \E i \in 1..Len(norm_out) : IsCanonOf(norm_out[i], norm_in[k])
    /\ \A i, j \in 1..Len(norm_out) :
         i < j => FirstOccurrence(norm_in, norm_out[i])
                    < FirstOccurrence(norm_in, norm_out[j])
    /\ (norm_in = <<>> => norm_out = <<>>)
    /\ normalize_symbols(norm_out) = norm_out

\* ["b", " a", "B"] gives ["B", "A"]: the later "B" is a duplicate of "b".
C9_Witness ==
  /\ norm_done
  /\ norm_in = << <<"b">>, <<" ", "a">>, <<"B">> >>
  /\ norm_out = << <<"B">>, <<"A">> >>

\* C7: a run whose fetch fails for a fatal reason (no credential, no symbol,
\* transport failure, HTTP status other than 200, API error code) writes
\* nothing: the ledger is as before, absent if it was absent.  A run with no
\* fatal reason writes its row, whatever symbols it had to skip, the skipped
\* ones as empty cells.
C7_FatalWritesNothing ==
  [][Called =>
       /\ (run'.cause # "none") <=> (run'.raised # "none")
       /\ run'.cause # "none" => (csv_exists' = csv_exists /\ csv_file' = csv_file)
       /\ run'.cause = "none" =>
            /\ csv_exists'
            /\ Len(csv_file') = (IF LedgerExists THEN Len(csv_file) ELSE 1) + 1
            /\ csv_file'[Len(csv_file')][1] = TimestampOf(clock')
            /\ \A c \in run'.skipped :
                 csv_file'[Len(csv_file')][ColumnAt(csv_file'[1], c)] = <<>>]_vars

\* A failed run (HTTP status) after a run that skipped B and wrote its row:
\* the ledger still is header and that one row.
C7_Witness ==
  /\ clock = 2
  /\ run.raised = "http"
  /\ csv_file = << <<TimestampCol, Symbol_A, Symbol_B>>,
                   <<TimestampOf(1), PriceText(1), <<>>>> >>

\* Every invocation is over.
AllIdle == \A p \in Procs : loc[p].pc = "idle"

\* The row of a completed invocation is not in the ledger.
RowLost ==
  \E t \in done_calls : \A i \in 2..Len(csv_file) : csv_file[i][1] # t

\* A row has another number of cells than the header has columns.
RowMisshapen ==
  \E i \in 2..Len(csv_file) : Len(csv_file[i]) # Len(csv_file[1])

Corrupted == RowLost \/ RowMisshapen

\* C8: with the invocations run strictly one after another the ledger is
\* never corrupted; interleaved, with a rewrite under way beside another
\* invocation, a corrupted final ledger is reachable (the witness).
C8_SerialNeverCorrupts ==
  (AllIdle /\ ~overlap) => ~Corrupted

\* Three invocations completed: one created the ledger, the two others met it
\* existing, one of them rewrote the file after the other had read its
\* header, and the row of a completed invocation is gone.
C8_Witness ==
  /\ AllIdle
  /\ raced
  /\ done_calls = {TimestampOf(1), TimestampOf(2), TimestampOf(3)}
  /\ Len(csv_file) = 3
  /\ csv_file[1] = <<TimestampCol, Symbol_A, Symbol_B>>
  /\ csv_file[2][1] = TimestampOf(1)
  /\ RowLost

====
